---- MODULE Spec2Model ----
(***************************************************************************)
(* Model of src/main.rs: ingest_file (file record, chunk splitting,        *)
(* batched concurrent upload, ordered catalog insert),                     *)
(* upload_chunk_with_retry (retry / backoff of one chunk), and the         *)
(* commands that read the catalog: export_file, list_files, verify_file.   *)
(*                                                                         *)
(* The specifications run the same actions from different inputs:          *)
(*   Spec        files of up to MaxSize bytes whose reads fill the buffer, *)
(*               an endpoint with at most MaxFaults faulty responses: the  *)
(*               interleavings of the concurrent closures;                 *)
(*   SpecLive    the runs of Spec in which the program keeps running;      *)
(*   SpecRetry   files of up to RetrySize bytes, an endpoint with up to    *)
(*               Max429 rate-limit responses and MaxFail transport         *)
(*               failures: the retry loop;                                 *)
(*   SpecSplit   the splitting loop alone, under every chunk size and      *)
(*               every transfer limit of a read;                           *)
(*   SpecExport  one ingestion as in Spec, then exports, listings and      *)
(*               verifications of what it catalogued;                      *)
(*   SpecCatalog up to MaxIngest ingestions of files of up to CatSize      *)
(*               bytes, with the other commands in between.                *)
(***************************************************************************)
EXTENDS Integers, Sequences, FiniteSets, TLC

(* ---- bounds of the model ---- *)
\* ingest_file calls in one behaviour of SpecCatalog
MaxIngest == 2
\* largest file of SpecCatalog, in bytes
CatSize == 1
\* largest chunk size in bytes given to ingest_file
MaxChunk == 2
\* Spec: largest file size in bytes
MaxSize == 4
\* Spec: most faulty responses (HTTP 429 or transport failure) of the
\* endpoint in one ingestion
MaxFaults == 1
\* SpecRetry: largest file size in bytes
RetrySize == 1
\* SpecRetry: most HTTP 429 responses of the endpoint in one ingestion
Max429 == 2
\* SpecRetry: most transport failures of the endpoint in one ingestion
MaxFail == 5
\* SpecSplit: largest file size in bytes
SplitSize == 6

(* ---- program constants ---- *)
\* chunks.chunks(3): size of a chunk group
BatchSize == 3
\* `if attempts < 5`: the attempt budget of upload_chunk_with_retry
MaxAttempts == 5
\* random_range(5..=15): seconds slept after an HTTP 429
RateLimitMin == 5
RateLimitMax == 15
\* random_range(2..=6): seconds slept by a worker after its upload
ThrottleMin == 2
ThrottleMax == 6
\* 2u64.pow(attempts): base of the transport backoff
BackoffBase == 2

VARIABLES
    pc,           \* position of ingest_file
    file,         \* the bytes of the source file
    chunk_size,   \* the chunk_size argument
    read_limit,   \* most bytes one call of f.read transfers in this run
    pos,          \* bytes of the file consumed by f.read so far
    chunks,       \* Vec<(usize, Vec<u8>)> built by the splitting loop
    idx,          \* the idx counter of the splitting loop
    group,        \* number of the chunk group being uploaded (0-based)
    workers,      \* per chunk: the state of the closure run by par_iter
    results,      \* the Arc<Mutex<Vec<(usize, (String, String))>>>
    pending,      \* the sorted results still to be inserted
    files,        \* rows of table files, in insertion order
    file_chunks,  \* rows of table file_chunks, in insertion order
    file_id,      \* conn.last_insert_rowid() of the files row (0: none yet)
    remote,       \* payloads stored by the upload endpoint, by message number
    ret,          \* what ingest_file returned
    quota429,     \* HTTP 429 responses the endpoint will still give
    quotaFail,    \* transport failures the endpoint will still cause
    sleep_call,   \* the thread::sleep call made by the last step, if any
    calls,        \* the arguments of the ingest_file calls made so far
    ex,           \* export_file: its position, arguments and requests
    sink,         \* the output sink of export_file
    listed,       \* what the last list_files printed
    verified      \* how the last verify_file ended

\* the state of the commands other than ingest
cmdvars == <<calls, ex, sink, listed, verified>>

vars == <<pc, file, chunk_size, read_limit, pos, chunks, idx, group, workers, results,
          pending, files, file_chunks, file_id, remote, ret, quota429,
          quotaFail, sleep_call, calls, ex, sink, listed, verified>>

Min(a, b) == IF a < b THEN a ELSE b

RECURSIVE Pow(_, _)
Pow(b, e) == IF e = 0 THEN 1 ELSE b * Pow(b, e - 1)

\* mutant: a backoff that grows linearly
BackoffDelayLinear(attempts) == BackoffBase * attempts

\* 2u64.pow(attempts)
BackoffDelay(attempts) == Pow(BackoffBase, attempts)

\* rand::rng().random_range(2..=6)
ThrottleDelays == ThrottleMin..ThrottleMax

\* mutant: the rate-limit sleep drawn from the range of the throttle sleep
RateLimitDelaysAsThrottle == ThrottleDelays

\* rand::rng().random_range(5..=15)
RateLimitDelays == RateLimitMin..RateLimitMax

\* thread::sleep(Duration::from_secs(d)) called by the closure of chunk
\* position i, for the reason kind
SleepCall(i, kind, d) == [worker |-> i, kind |-> kind, secs |-> d]
NoSleep == [worker |-> 0, kind |-> "none", secs |-> 0]

\* the source file: byte i of a file holds i, so that every loss,
\* duplication or reordering of bytes is visible
FileOfSize(n) == [i \in 1..n |-> i]

\* f.read(&mut buffer): the length a single read returns with `left`
\* bytes before the end of the file. Read::read fills the buffer only as far
\* as one transfer goes: it may return fewer bytes than the buffer holds
\* before the end of the file is reached (one read(2) of Linux transfers at
\* most 0x7ffff000 bytes); it returns 0 at the end of the file and for an
\* empty buffer.
ReadLen(buflen, left, limit) == Min(Min(buflen, left), limit)

\* buffer[..n].to_vec() for the n bytes read at offset p
Slice(f, p, n) == [i \in 1..n |-> f[p + i]]

\* the closure before it is run
\*   st        where the closure is: "idle", "inflight" (inside
\*             upload_chunk_with_retry), "throttle" (in its sleep of 2..6
\*             seconds), "finished", "panicked"
\*   attempts  the local `attempts` of upload_chunk_with_retry
\*   outcome   how upload_chunk_with_retry ended: "none" (not yet), "ok",
\*             "transport" (Err of the 5th attempt), "json" (Err of
\*             r.json()), "panic" (unwrap of a missing field)
\*   n429, nfail   responses with status 429 and transport failures seen
\*   sleeps429     sleeps of 5..15 seconds made
\*   backoffs      the seconds of the transport backoff sleeps made, in order
\*   response      the (message_id, url) of the Ok result
\*   throttles     sleeps of 2..6 seconds the closure has started
IdleWorker ==
    [st |-> "idle", attempts |-> 0, outcome |-> "none", n429 |-> 0,
     nfail |-> 0, sleeps429 |-> 0, backoffs |-> <<>>, response |-> <<>>,
     throttles |-> 0]

\* how a call of ingest_file stands: not returned yet, unwound by a panic,
\* returned an error (Ok(file_id) is defined with the return of the id)
NoReturn == <<"none">>
Panicked == <<"panic">>
Err == <<"Err">>

\* the arguments of one call of ingest_file: the file at `path`, chunk_size
CallOf(f, s) == [file |-> f, chunk_size |-> s]

\* export_file before it is called
\*   pc    "idle", "fetch" (in the loop over the chunk rows), "done"
\*   id    the file_id argument
\*   rows  the (idx, url) rows the loop has still to fetch
\*   gets  the GET requests sent so far, each with how it ended
\*   ret   "none", "ok", "notfound" (Err of the filename query_row),
\*         "network" (Err of send or of io::copy)
IdleExport == [pc |-> "idle", id |-> 0, rows |-> <<>>, gets |-> <<>>, ret |-> "none"]

\* the output sink: not created, or created holding `bytes`
NoSink == [created |-> FALSE, bytes |-> <<>>]

\* list_files has printed nothing
NotListed == [printed |-> FALSE, rows |-> <<>>]

\* verify_file has not been called
\*   ret      "none", "ok", "err"
\*   scanned  the idx of the chunks it hashed, in order
\*   mismatch the idx it printed MISMATCH for
\*   pass     it printed "All chunks verified"
NotVerified ==
    [ret |-> "none", id |-> 0, scanned |-> <<>>, mismatch |-> {}, pass |-> FALSE]

\* the state before ingest_file runs on a file of n bytes
InitWith(n, s, l, q429, qfail) ==
    /\ pc = "start"
    /\ file = FileOfSize(n)
    /\ chunk_size = s
    /\ read_limit = l
    /\ pos = 0
    /\ chunks = <<>>
    /\ idx = 0
    /\ group = 0
    /\ workers = <<>>
    /\ results = <<>>
    /\ pending = <<>>
    /\ files = <<>>
    /\ file_chunks = <<>>
    /\ file_id = 0
    /\ remote = <<>>
    /\ ret = NoReturn
    /\ quota429 = q429
    /\ quotaFail = qfail
    /\ sleep_call = NoSleep
    /\ calls = <<CallOf(FileOfSize(n), s)>>
    /\ ex = IdleExport
    /\ sink = NoSink
    /\ listed = NotListed
    /\ verified = NotVerified

\* ingestion of a file that every read fills the buffer from, through an
\* endpoint that gives few faulty responses
Init ==
    \E n \in 0..MaxSize, s \in 0..MaxChunk, q429, qfail \in 0..MaxFaults :
        /\ q429 + qfail <= MaxFaults
        /\ InitWith(n, s, MaxChunk, q429, qfail)

\* ingestion of a small file through an endpoint that gives many faulty
\* responses
InitRetry ==
    \E n \in 0..RetrySize, s \in 1..MaxChunk, q429 \in 0..Max429, qfail \in 0..MaxFail :
        InitWith(n, s, MaxChunk, q429, qfail)

\* ingestion of a file under every chunk size and every transfer limit
InitSplit ==
    \E n \in 0..SplitSize, s \in 0..MaxChunk, l \in 1..MaxChunk :
        InitWith(n, s, l, 0, 0)

\* INTEGER PRIMARY KEY AUTOINCREMENT: one more than the largest id given
NextRowId(rows) == IF rows = <<>> THEN 1 ELSE rows[Len(rows)].id + 1

\* mutant: the file size and the chunk size bound in each other's place
FileRowSwapped(id, f, s) == [id |-> id, filesize |-> s, chunk_size |-> Len(f)]

\* the files row of the INSERT: params![filename, filesize, chunk_size]
FileRow(id, f, s) == [id |-> id, filesize |-> Len(f), chunk_size |-> s]

\* File::open, metadata, INSERT INTO files, last_insert_rowid
InsertFile ==
    /\ pc = "start"
    /\ UNCHANGED cmdvars
    /\ files' = Append(files, FileRow(NextRowId(files), file, chunk_size))
    /\ file_id' = NextRowId(files)
    /\ pc' = "read"
    /\ sleep_call' = NoSleep
    /\ UNCHANGED <<file, chunk_size, read_limit, pos, chunks, idx, group, workers,
                   results, pending, file_chunks, remote, ret, quota429,
                   quotaFail>>

\* one iteration of the splitting loop
ReadChunk ==
    /\ pc = "read"
    /\ UNCHANGED cmdvars
    /\ LET n == ReadLen(chunk_size, Len(file) - pos, read_limit) IN
         IF n = 0
         THEN /\ pc' = "upload"
              /\ UNCHANGED <<pos, chunks, idx, workers>>
         ELSE /\ chunks' = Append(chunks, [idx |-> idx, data |-> Slice(file, pos, n)])
              /\ workers' = Append(workers, IdleWorker)
              /\ idx' = idx + 1
              /\ pos' = pos + n
              /\ pc' = "read"
    /\ sleep_call' = NoSleep
    /\ UNCHANGED <<file, chunk_size, read_limit, group, results, pending, files,
                   file_chunks, file_id, remote, ret, quota429, quotaFail>>

\* chunks.chunks(3): the group a chunk position (1-based) belongs to
GroupOf(i) == (i - 1) \div BatchSize

\* the chunk positions of chunk group g
GroupMembers(g) == {i \in 1..Len(chunks) : GroupOf(i) = g}

\* the closure of par_iter starts on chunk i: the staging copy is written
\* and upload_chunk_with_retry sends its first request (attempts = 1)
StartUpload(i) ==
    /\ pc = "upload"
    /\ UNCHANGED cmdvars
    /\ i \in GroupMembers(group)
    /\ workers[i].st = "idle"
    /\ workers' = [workers EXCEPT ![i].st = "inflight", ![i].attempts = 1]
    /\ sleep_call' = NoSleep
    /\ UNCHANGED <<pc, file, chunk_size, read_limit, pos, chunks, idx, group, results,
                   pending, files, file_chunks, file_id, remote, ret,
                   quota429, quotaFail>>

\* `attempts += 1` at the head of the loop
NextAttempt(attempts) == attempts + 1

\* the endpoint answers HTTP 429: the worker sleeps 5..15 seconds, then
\* `continue` starts the next iteration, which sends the request again
Resp429(i) ==
    /\ pc = "upload"
    /\ UNCHANGED cmdvars
    /\ i \in 1..Len(workers)
    /\ workers[i].st = "inflight"
    /\ quota429 > 0
    /\ quota429' = quota429 - 1
    /\ \E d \in RateLimitDelays : sleep_call' = SleepCall(i, "ratelimit", d)
    /\ workers' = [workers EXCEPT ![i].n429 = @ + 1,
                                  ![i].sleeps429 = @ + 1,
                                  ![i].attempts = NextAttempt(@)]
    /\ UNCHANGED <<pc, file, chunk_size, read_limit, pos, chunks, idx, group, results,
                   pending, files, file_chunks, file_id, remote, ret,
                   quotaFail>>

\* `if attempts < 5` of the Err(e) arm
MayRetry(attempts) == attempts < MaxAttempts

\* mutant: the closure unwraps the result, so that an error unwinds it
OnUploadErrAbort(w, kind) == [w EXCEPT !.st = "panicked", !.outcome = kind]

\* mutant: the sleep inside the Ok arm, so that a failed closure returns at once
OnUploadErrNoSleep(w, kind) == [w EXCEPT !.st = "finished", !.outcome = kind]

\* the Err(e) arm of the closure: upload_chunk_with_retry returned the
\* error `kind`, the closure logs it and goes on to its sleep
OnUploadErr(w, kind) ==
    [w EXCEPT !.st = "throttle", !.outcome = kind, !.throttles = @ + 1]

\* the Ok(res) arm of the closure, after the push of res
OnUploadOk(w, res) ==
    [w EXCEPT !.st = "throttle", !.outcome = "ok", !.response = res[2],
              !.throttles = @ + 1]

\* the request fails at transport level: the worker backs off 2^attempts
\* seconds and sends again, or upload_chunk_with_retry returns the error,
\* which the closure logs before it starts its sleep of 2..6 seconds
RespTransportError(i) ==
    /\ pc = "upload"
    /\ UNCHANGED cmdvars
    /\ i \in 1..Len(workers)
    /\ workers[i].st = "inflight"
    /\ quotaFail > 0
    /\ quotaFail' = quotaFail - 1
    /\ IF MayRetry(workers[i].attempts)
       THEN /\ workers' = [workers EXCEPT
                    ![i].nfail = @ + 1,
                    ![i].backoffs = Append(@, BackoffDelay(workers[i].attempts)),
                    ![i].attempts = NextAttempt(@)]
            /\ sleep_call' = SleepCall(i, "backoff", BackoffDelay(workers[i].attempts))
       ELSE /\ workers' = [workers EXCEPT
                    ![i] = OnUploadErr([@ EXCEPT !.nfail = @ + 1], "transport")]
            /\ \E d \in ThrottleDelays : sleep_call' = SleepCall(i, "throttle", d)
    /\ UNCHANGED <<pc, file, chunk_size, read_limit, pos, chunks, idx, group, results,
                   pending, files, file_chunks, file_id, remote, ret,
                   quota429>>

\* the locator the endpoint assigns to its n-th stored message
MessageId(n) == <<"msg", n>>
Url(n) == <<"url", n>>

\* Ok((idx, (message_id, url)))
UploadResult(i, n) == <<chunks[i].idx, <<MessageId(n), Url(n)>>>>

\* results.lock().unwrap().push(res)
Push(rs, res) == Append(rs, res)

\* the endpoint stores the payload and answers with a well-formed body:
\* the result is pushed under the lock and the closure starts its sleep
RespOk(i) ==
    /\ pc = "upload"
    /\ UNCHANGED cmdvars
    /\ i \in 1..Len(workers)
    /\ workers[i].st = "inflight"
    /\ remote' = Append(remote, chunks[i].data)
    /\ results' = Push(results, UploadResult(i, Len(remote) + 1))
    /\ workers' = [workers EXCEPT
            ![i] = OnUploadOk(@, UploadResult(i, Len(remote) + 1))]
    /\ \E d \in ThrottleDelays : sleep_call' = SleepCall(i, "throttle", d)
    /\ UNCHANGED <<pc, file, chunk_size, read_limit, pos, chunks, idx, group, pending,
                   files, file_chunks, file_id, ret, quota429, quotaFail>>

\* a non-429 response whose body is not JSON: `r.json()?` returns the
\* error, which the closure logs before it starts its sleep
RespNotJson(i) ==
    /\ pc = "upload"
    /\ UNCHANGED cmdvars
    /\ i \in 1..Len(workers)
    /\ workers[i].st = "inflight"
    /\ workers' = [workers EXCEPT ![i] = OnUploadErr(@, "json")]
    /\ \E d \in ThrottleDelays : sleep_call' = SleepCall(i, "throttle", d)
    /\ UNCHANGED <<pc, file, chunk_size, read_limit, pos, chunks, idx, group, results,
                   pending, files, file_chunks, file_id, remote, ret,
                   quota429, quotaFail>>

\* a non-429 JSON body without "id" or without attachments[0].url:
\* `as_str().unwrap()` panics and the closure unwinds
RespMissingField(i) ==
    /\ pc = "upload"
    /\ UNCHANGED cmdvars
    /\ i \in 1..Len(workers)
    /\ workers[i].st = "inflight"
    /\ workers' = [workers EXCEPT ![i].st = "panicked", ![i].outcome = "panic"]
    /\ sleep_call' = NoSleep
    /\ UNCHANGED <<pc, file, chunk_size, read_limit, pos, chunks, idx, group, results,
                   pending, files, file_chunks, file_id, remote, ret,
                   quota429, quotaFail>>

\* thread::sleep(Duration::from_secs(delay)) of the closure returns
EndThrottle(i) ==
    /\ pc = "upload"
    /\ UNCHANGED cmdvars
    /\ i \in 1..Len(workers)
    /\ workers[i].st = "throttle"
    /\ workers' = [workers EXCEPT ![i].st = "finished"]
    /\ sleep_call' = NoSleep
    /\ UNCHANGED <<pc, file, chunk_size, read_limit, pos, chunks, idx, group, results,
                   pending, files, file_chunks, file_id, remote, ret,
                   quota429, quotaFail>>

\* mutant: the group counts as complete once every upload has its outcome
GroupCompleteEarly(g) ==
    \A i \in {j \in 1..Len(chunks) : (j - 1) \div BatchSize = g} :
        workers[i].outcome # "none"

\* par_iter().for_each returns once every closure of the group returned
GroupComplete(g) == \A i \in GroupMembers(g) : workers[i].st = "finished"

\* the outer for_each moves to the next chunk group
NextGroup ==
    /\ pc = "upload"
    /\ UNCHANGED cmdvars
    /\ GroupMembers(group) # {}
    /\ GroupComplete(group)
    /\ group' = group + 1
    /\ sleep_call' = NoSleep
    /\ UNCHANGED <<pc, file, chunk_size, read_limit, pos, chunks, idx, workers, results,
                   pending, files, file_chunks, file_id, remote, ret,
                   quota429, quotaFail>>

\* a closure of the group panicked: par_iter re-raises the panic once no
\* closure of the group is running any more, and ingest_file unwinds
GroupPanic ==
    /\ pc = "upload"
    /\ UNCHANGED cmdvars
    /\ \E i \in GroupMembers(group) : workers[i].st = "panicked"
    /\ \A i \in GroupMembers(group) :
          workers[i].st \in {"idle", "finished", "panicked"}
    /\ pc' = "panicked"
    /\ ret' = Panicked
    /\ sleep_call' = NoSleep
    /\ UNCHANGED <<file, chunk_size, read_limit, pos, chunks, idx, group, workers,
                   results, pending, files, file_chunks, file_id, remote,
                   quota429, quotaFail>>

\* insertion of x into a sequence sorted by key, after the equal keys
RECURSIVE InsertSorted(_, _)
InsertSorted(x, s) ==
    IF s = <<>> THEN <<x>>
    ELSE IF x[1] < Head(s)[1] THEN <<x>> \o s
    ELSE <<Head(s)>> \o InsertSorted(x, Tail(s))

RECURSIVE StableSort(_)
StableSort(s) ==
    IF s = <<>> THEN <<>>
    ELSE InsertSorted(s[Len(s)], StableSort(SubSeq(s, 1, Len(s) - 1)))

\* mutant: the results inserted in the order the uploads completed
SortByKeyNone(rs) == rs

\* results.sort_by_key(|(idx, _)| *idx)
SortByKey(rs) == StableSort(rs)

\* every chunk group is done: the results are taken out of the mutex and sorted
SortResults ==
    /\ pc = "upload"
    /\ UNCHANGED cmdvars
    /\ GroupMembers(group) = {}
    /\ pending' = SortByKey(results)
    /\ pc' = "insert"
    /\ sleep_call' = NoSleep
    /\ UNCHANGED <<file, chunk_size, read_limit, pos, chunks, idx, group, workers,
                   results, files, file_chunks, file_id, remote, ret,
                   quota429, quotaFail>>

\* mutant: message id and url bound to each other's column
ChunkRowSwapped(fid, res) ==
    [file_id |-> fid, idx |-> res[1], message_id |-> res[2][2], url |-> res[2][1]]

\* the row of one result
ChunkRow(fid, res) ==
    [file_id |-> fid, idx |-> res[1], message_id |-> res[2][1], url |-> res[2][2]]

\* PRIMARY KEY(file_id, idx)
KeyExists(rows, fid, k) ==
    \E j \in 1..Len(rows) : rows[j].file_id = fid /\ rows[j].idx = k

\* one iteration of the insert loop: INSERT INTO file_chunks, whose `?`
\* returns the error of a violated primary key
InsertRow ==
    /\ pc = "insert"
    /\ UNCHANGED cmdvars
    /\ pending # <<>>
    /\ IF KeyExists(file_chunks, file_id, Head(pending)[1])
       THEN /\ pc' = "done"
            /\ ret' = Err
            /\ UNCHANGED <<pending, file_chunks>>
       ELSE /\ file_chunks' = Append(file_chunks, ChunkRow(file_id, Head(pending)))
            /\ pending' = Tail(pending)
            /\ UNCHANGED <<pc, ret>>
    /\ sleep_call' = NoSleep
    /\ UNCHANGED <<file, chunk_size, read_limit, pos, chunks, idx, group, workers,
                   results, files, file_id, remote, quota429, quotaFail>>

\* Ok(file_id)
Ok(fid) == <<"Ok", fid>>

Return ==
    /\ pc = "insert"
    /\ UNCHANGED cmdvars
    /\ pending = <<>>
    /\ pc' = "done"
    /\ ret' = Ok(file_id)
    /\ sleep_call' = NoSleep
    /\ UNCHANGED <<file, chunk_size, read_limit, pos, chunks, idx, group, workers,
                   results, pending, files, file_chunks, file_id, remote,
                   quota429, quotaFail>>

Next ==
    \/ InsertFile
    \/ ReadChunk
    \/ \E i \in 1..Len(workers) : StartUpload(i)
    \/ \E i \in 1..Len(workers) : Resp429(i)
    \/ \E i \in 1..Len(workers) : RespTransportError(i)
    \/ \E i \in 1..Len(workers) : RespOk(i)
    \/ \E i \in 1..Len(workers) : RespNotJson(i)
    \/ \E i \in 1..Len(workers) : RespMissingField(i)
    \/ \E i \in 1..Len(workers) : EndThrottle(i)
    \/ NextGroup
    \/ GroupPanic
    \/ SortResults
    \/ InsertRow
    \/ Return

Spec == Init /\ [][Next]_vars

SpecRetry == InitRetry /\ [][Next]_vars

\* the runs of Spec in which the program keeps running: every closure that
\* can run is run by a thread of the pool, every request is answered or
\* fails, every sleep ends and the main thread goes on when it can. The
\* endpoint answers 429 at most quota429 times, finitely often
SpecLive == Init /\ [][Next]_vars /\ WF_vars(Next)

\* the splitting loop alone
NextSplit ==
    \/ InsertFile
    \/ ReadChunk

SpecSplit == InitSplit /\ [][NextSplit]_vars

(***************************************************************************)
(* The catalog as the claims read it                                       *)
(***************************************************************************)

\* SELECT idx, url FROM file_chunks WHERE file_id = ?1 ORDER BY idx ASC
QueryChunks(fid) ==
    LET rs == SelectSeq(file_chunks, LAMBDA r : r.file_id = fid)
    IN  StableSort([j \in 1..Len(rs) |-> <<rs[j].idx, rs[j].url>>])

\* ingest_file returned the file id
Returned == pc = "done" /\ ret = Ok(file_id)

\* number of file_chunks rows of the ingested file with index k
RowCount(k) ==
    Cardinality({j \in 1..Len(file_chunks) :
                    file_chunks[j].file_id = file_id /\ file_chunks[j].idx = k})

\* upload_chunk_with_retry returned an error for the chunk of worker w
Failed(w) == w.outcome \in {"transport", "json"}

\* the closures that have started and not yet returned
Running == {i \in 1..Len(workers) : workers[i].st \in {"inflight", "throttle"}}

RECURSIVE Concat(_)
Concat(cs) == IF cs = <<>> THEN <<>> ELSE Head(cs).data \o Concat(Tail(cs))

(***************************************************************************)
(* The other commands: each run of the program executes one command on     *)
(* the database the earlier runs left                                      *)
(***************************************************************************)

\* the PROXY_BASE of the environment
ProxyBase == "proxy"

\* the body of a response whose status is an error status
ErrorBody == <<0>>

\* main returns: the process of the ingest command is gone, the database,
\* the endpoint's store, the source file and what was printed remain
ProcessExit ==
    /\ pc \in {"done", "panicked"}
    /\ pc' = "exited"
    /\ pos' = 0
    /\ chunks' = <<>>
    /\ idx' = 0
    /\ group' = 0
    /\ workers' = <<>>
    /\ results' = <<>>
    /\ pending' = <<>>
    /\ sleep_call' = NoSleep
    /\ UNCHANGED <<file, chunk_size, read_limit, files, file_chunks, file_id,
                   remote, ret, quota429, quotaFail>>
    /\ UNCHANGED cmdvars

\* no command is running
CommandIdle == pc = "exited" /\ ex.pc # "fetch"

\* what no command but ingest changes
ingestvars == <<pc, file, chunk_size, read_limit, pos, chunks, idx, group, workers,
                results, pending, files, file_chunks, file_id, remote, ret,
                quota429, quotaFail, sleep_call, calls>>

\* SELECT filename FROM files WHERE id = ?1 returns a row
FileExists(fid) == \E j \in 1..Len(files) : files[j].id = fid

\* mutant: the output file is created before the filename is looked up
OpenSinkFirst(found) == [created |-> TRUE, bytes |-> <<>>]

\* the output writer: File::create runs only past the `?` of query_row
OpenSink(found) == IF found THEN [created |-> TRUE, bytes |-> <<>>] ELSE NoSink

\* export_file up to its loop: the filename query, the output writer, the
\* chunk query
ExportOpen(fid) ==
    /\ CommandIdle
    /\ ex' = IF FileExists(fid)
             THEN [pc |-> "fetch", id |-> fid, rows |-> QueryChunks(fid),
                   gets |-> <<>>, ret |-> "none"]
             ELSE [pc |-> "done", id |-> fid, rows |-> <<>>,
                   gets |-> <<>>, ret |-> "notfound"]
    /\ sink' = OpenSink(FileExists(fid))
    /\ listed' = NotListed
    /\ verified' = NotVerified
    /\ UNCHANGED ingestvars

\* mutant: the url appended as a path
ProxiedUrlAsPath(base, url) == <<base, "/", url>>

\* format!("{proxy_base}/?{url}")
ProxiedUrl(base, url) == <<base, "/?", url>>

\* what the endpoint stored under a url it gave out
Payload(url) == remote[url[2]]

\* a GET request, how it ended: "ok", "status" (a response with an error
\* status), "transport" (Err of send), "body" (Err of io::copy), and the
\* bytes of the response body that io::copy wrote
Get(url, end, body) ==
    [url |-> ProxiedUrl(ProxyBase, url), end |-> end, body |-> body]

\* send returned a response and io::copy wrote its whole body to the sink
CopyBody(end, body) ==
    /\ ex.pc = "fetch"
    /\ ex.rows # <<>>
    /\ ex' = [ex EXCEPT !.rows = Tail(@),
                        !.gets = Append(@, Get(Head(ex.rows)[2], end, body))]
    /\ sink' = [sink EXCEPT !.bytes = @ \o body]
    /\ UNCHANGED <<listed, verified>>
    /\ UNCHANGED ingestvars

\* the GET is answered with the stored payload
FetchOk ==
    /\ ex.pc = "fetch"
    /\ ex.rows # <<>>
    /\ CopyBody("ok", Payload(Head(ex.rows)[2]))

\* the GET is answered with an error status (an expired or unknown url):
\* send returns Ok for every status, and the status is never looked at
FetchErrorStatus ==
    /\ ex.pc = "fetch"
    /\ ex.rows # <<>>
    /\ CopyBody("status", ErrorBody)

\* send()? returns the error
FetchTransportError ==
    /\ ex.pc = "fetch"
    /\ ex.rows # <<>>
    /\ ex' = [ex EXCEPT !.pc = "done", !.ret = "network",
                        !.gets = Append(@, Get(Head(ex.rows)[2], "transport", <<>>))]
    /\ UNCHANGED <<sink, listed, verified>>
    /\ UNCHANGED ingestvars

\* the connection breaks while io::copy streams the body: the bytes copied
\* so far stay in the sink, io::copy(..)? returns the error
FetchBodyError ==
    /\ ex.pc = "fetch"
    /\ ex.rows # <<>>
    /\ \E k \in 0..(Len(Payload(Head(ex.rows)[2])) - 1) :
          LET part == SubSeq(Payload(Head(ex.rows)[2]), 1, k) IN
            /\ sink' = [sink EXCEPT !.bytes = @ \o part]
            /\ ex' = [ex EXCEPT !.pc = "done", !.ret = "network",
                                !.gets = Append(@, Get(Head(ex.rows)[2], "body", part))]
    /\ UNCHANGED <<listed, verified>>
    /\ UNCHANGED ingestvars

\* the loop over the rows is over: Ok(())
ExportReturn ==
    /\ ex.pc = "fetch"
    /\ ex.rows = <<>>
    /\ ex' = [ex EXCEPT !.pc = "done", !.ret = "ok"]
    /\ UNCHANGED <<sink, listed, verified>>
    /\ UNCHANGED ingestvars

\* SELECT .. FROM files ORDER BY id
QueryFiles ==
    LET keyed == StableSort([j \in 1..Len(files) |-> <<files[j].id, files[j]>>])
    IN  [j \in 1..Len(keyed) |-> keyed[j][2]]

\* list_files: one printed line per row of the query
ListFiles ==
    /\ CommandIdle
    /\ listed' = [printed |-> TRUE, rows |-> QueryFiles]
    /\ ex' = IdleExport
    /\ sink' = NoSink
    /\ verified' = NotVerified
    /\ UNCHANGED ingestvars

\* the tables init_schema creates
Tables == {"files", "file_chunks", "directories"}

\* verify_file: its statement reads table chunks, which no statement of the
\* program creates, so that prepare(..)? returns the error before any row
\* is read and before anything is printed
VerifyFile(fid) ==
    /\ CommandIdle
    /\ "chunks" \notin Tables
    /\ verified' = [NotVerified EXCEPT !.ret = "err", !.id = fid]
    /\ ex' = IdleExport
    /\ sink' = NoSink
    /\ listed' = NotListed
    /\ UNCHANGED ingestvars

\* the ingest command run again, on a file of n bytes with chunk size s
NewIngest(n, s) ==
    /\ CommandIdle
    /\ Len(calls) < MaxIngest
    /\ pc' = "start"
    /\ file' = FileOfSize(n)
    /\ chunk_size' = s
    /\ file_id' = 0
    /\ ret' = NoReturn
    /\ calls' = Append(calls, CallOf(FileOfSize(n), s))
    /\ ex' = IdleExport
    /\ sink' = NoSink
    /\ listed' = NotListed
    /\ verified' = NotVerified
    /\ UNCHANGED <<read_limit, pos, chunks, idx, group, workers, results, pending,
                   files, file_chunks, remote, quota429, quotaFail, sleep_call>>

\* the commands that read the catalog
Commands ==
    \/ ProcessExit
    \/ \E fid \in 1..(Len(files) + 1) : ExportOpen(fid)
    \/ FetchOk
    \/ FetchErrorStatus
    \/ FetchTransportError
    \/ FetchBodyError
    \/ ExportReturn
    \/ ListFiles
    \/ \E fid \in 1..(Len(files) + 1) : VerifyFile(fid)

\* one ingestion, then exports, listings and verifications of its catalog
NextExport == Next \/ Commands

SpecExport == Init /\ [][NextExport]_vars

\* ingestion of a small file, the first of several, through an endpoint
\* that answers every request
InitCatalog ==
    \E n \in 0..CatSize, s \in 0..MaxChunk : InitWith(n, s, MaxChunk, 0, 0)

\* several ingestions, each followed by commands on the catalog; the
\* endpoint answers every request, so that no request is rate-limited or
\* fails at transport level
NextCatalog ==
    \/ InsertFile
    \/ ReadChunk
    \/ \E i \in 1..Len(workers) : StartUpload(i)
    \/ \E i \in 1..Len(workers) : RespOk(i)
    \/ \E i \in 1..Len(workers) : RespNotJson(i)
    \/ \E i \in 1..Len(workers) : RespMissingField(i)
    \/ \E i \in 1..Len(workers) : EndThrottle(i)
    \/ NextGroup
    \/ GroupPanic
    \/ SortResults
    \/ InsertRow
    \/ Return
    \/ Commands
    \/ \E n \in 0..CatSize, s \in 0..MaxChunk : NewIngest(n, s)

SpecCatalog == InitCatalog /\ [][NextCatalog]_vars

(***************************************************************************)
(* C1..C10                                                                 *)
(***************************************************************************)

\* C1 (as claimed): once ingest_file has returned the file id, the rows of
\* the file read in ascending idx are 0, 1, .., k-1 without gap or duplicate.
C1_CatalogContiguous ==
    Returned =>
        LET q == QueryChunks(file_id)
        IN  \A j \in 1..Len(q) : q[j][1] = j - 1

\* C2: a row (file_id, idx) exists only for a chunk whose upload returned
\* success, and carries the message id and url of that result; a chunk
\* whose upload failed permanently has no row; once ingest_file has
\* returned, every chunk whose upload succeeded has exactly one row.
C2_RowIffUploaded ==
    /\ \A j \in 1..Len(file_chunks) :
          /\ file_chunks[j].file_id = file_id
          /\ \E i \in 1..Len(chunks) :
                /\ chunks[i].idx = file_chunks[j].idx
                /\ workers[i].outcome = "ok"
                /\ workers[i].response =
                      <<file_chunks[j].message_id, file_chunks[j].url>>
    /\ \A i \in 1..Len(chunks) :
          workers[i].outcome # "ok" => RowCount(chunks[i].idx) = 0
    /\ Returned =>
          \A i \in 1..Len(chunks) :
              workers[i].outcome = "ok" => RowCount(chunks[i].idx) = 1

\* C2 witness: ingest_file returned with one chunk catalogued and another
\* one dropped after its permanent failure
C2_Witness ==
    /\ Returned
    /\ \E i, j \in 1..Len(chunks) :
          /\ workers[i].outcome = "ok" /\ RowCount(chunks[i].idx) = 1
          /\ Failed(workers[j]) /\ RowCount(chunks[j].idx) = 0

\* C3 (as claimed): a chunk is declared permanently failed by its transport
\* failures exactly when it has seen 5 of them, whatever the number of 429
\* responses it has seen.
C3_FailsAtFifthTransportFailure ==
    \A i \in 1..Len(workers) :
        workers[i].outcome = "transport" <=> workers[i].nfail = 5

\* C4: for a chunk that sees no 429 response, the k-th transport failure
\* (k = 1..4) is followed by a sleep of 2^k seconds; the 5th one ends the
\* 5th attempt with the error, without a further backoff sleep, and the
\* chunk gets no row; a success after fewer than 5 failures is catalogued
\* once ingest_file has returned.
C4_TransportBackoff ==
    \A i \in 1..Len(workers) :
        LET w == workers[i] IN
        w.n429 = 0 =>
            /\ Len(w.backoffs) <= 4
            /\ \A k \in 1..Len(w.backoffs) : w.backoffs[k] = <<2, 4, 8, 16>>[k]
            /\ w.st = "inflight" =>
                  Len(w.backoffs) = w.nfail /\ w.attempts = w.nfail + 1
            /\ (sleep_call.kind = "backoff" /\ sleep_call.worker = i) =>
                  /\ w.nfail \in 1..4
                  /\ sleep_call.secs = <<2, 4, 8, 16>>[w.nfail]
            /\ w.outcome = "transport" =>
                  /\ w.attempts = 5 /\ w.nfail = 5
                  /\ w.backoffs = <<2, 4, 8, 16>>
                  /\ RowCount(chunks[i].idx) = 0
            /\ w.outcome = "ok" =>
                  /\ w.nfail < 5 /\ Len(w.backoffs) = w.nfail
                  /\ Returned => RowCount(chunks[i].idx) = 1

\* C4 witness: ingest_file returned after a chunk failed at transport level
\* on each of its 5 attempts
C4_Witness ==
    /\ Returned
    /\ \E i \in 1..Len(workers) :
          /\ workers[i].n429 = 0
          /\ workers[i].outcome = "transport"
          /\ workers[i].backoffs = <<2, 4, 8, 16>>

\* C5: every 429 response is followed by one sleep of 5..15 seconds, after
\* which the upload is still in progress; a chunk that sees no transport
\* failure never fails by transport; and once ingest_file has returned, a
\* chunk whose upload succeeded after its 429 responses has exactly one row.
C5_RateLimitRetried ==
    /\ sleep_call.kind = "ratelimit" =>
          /\ sleep_call.secs \in 5..15
          /\ workers[sleep_call.worker].st = "inflight"
          /\ workers[sleep_call.worker].outcome = "none"
    /\ \A i \in 1..Len(workers) :
          /\ workers[i].sleeps429 = workers[i].n429
          /\ workers[i].nfail = 0 => workers[i].outcome # "transport"
          /\ (Returned /\ workers[i].outcome = "ok") =>
                RowCount(chunks[i].idx) = 1

\* C5 witness: ingest_file returned with the row of a chunk that was
\* answered with 429 twice and then with a success
C5_Witness ==
    /\ Returned
    /\ \E i \in 1..Len(workers) :
          /\ workers[i].n429 = 2 /\ workers[i].sleeps429 = 2
          /\ workers[i].nfail = 0
          /\ workers[i].outcome = "ok"
          /\ RowCount(chunks[i].idx) = 1

\* C6 (as claimed): a malformed non-429 body (not JSON, or without id or
\* attachments[0].url) ends the upload of its chunk as a permanent failure
\* that the closure logs, and ingest_file goes on to return the file id.
C6_MalformedIsChunkFailure ==
    /\ \A i \in 1..Len(workers) :
          workers[i].outcome \in {"json", "panic"} =>
              workers[i].st \in {"throttle", "finished"}
    /\ pc # "panicked"

\* C7: a chunk whose upload failed permanently is in neither the results
\* nor the catalog; ingest_file unwinds only when a closure panicked, never
\* because of a permanent failure; it reaches its insert loop only after
\* every chunk of every group has been attempted to its end; and it then
\* returns the file id with every uploaded chunk catalogued.
C7_FailureDoesNotAbort ==
    /\ \A i \in 1..Len(workers) :
          Failed(workers[i]) =>
              /\ workers[i].st \in {"throttle", "finished"}
              /\ \A j \in 1..Len(results) : results[j][1] # chunks[i].idx
              /\ RowCount(chunks[i].idx) = 0
    /\ pc = "panicked" => \E i \in 1..Len(workers) : workers[i].outcome = "panic"
    /\ pc \in {"insert", "done"} =>
          \A i \in 1..Len(workers) : workers[i].st = "finished"
    /\ pc = "done" =>
          /\ ret = Ok(file_id)
          /\ \A i \in 1..Len(workers) :
                workers[i].outcome = "ok" => RowCount(chunks[i].idx) = 1

\* C7 witness: ingest_file returned after a permanent failure in the first
\* group, with another chunk of that group and a chunk of the next group
\* catalogued
C7_Witness ==
    /\ Returned
    /\ \E i, j, k \in 1..Len(workers) :
          /\ GroupOf(i) = 0 /\ Failed(workers[i])
          /\ GroupOf(j) = 0 /\ workers[j].outcome = "ok"
          /\ GroupOf(k) = 1 /\ workers[k].outcome = "ok"
          /\ RowCount(chunks[j].idx) = 1 /\ RowCount(chunks[k].idx) = 1

\* C8 (as claimed): ingest_file returns a file id only for a file that has
\* at least one catalogued chunk row.
C8_NoIdWithoutChunks ==
    Returned => \E j \in 1..Len(file_chunks) : file_chunks[j].file_id = file_id

\* C9: at most 3 closures run at any moment, all on chunks 3b, 3b+1, 3b+2 of
\* the current group b; and a chunk has been started only if every chunk of
\* every earlier group has finished, its sleep included.
C9_BatchesSequential ==
    /\ Cardinality(Running) <= 3
    /\ \A i \in Running :
          chunks[i].idx \in {3 * group, 3 * group + 1, 3 * group + 2}
    /\ \A i, j \in 1..Len(workers) :
          (workers[i].st # "idle" /\ chunks[j].idx \div 3 < chunks[i].idx \div 3)
              => workers[j].st = "finished"

\* C9 witness: the last chunk of a file of more than 3 chunks is running in
\* the second group
C9_Witness ==
    /\ group = 1
    /\ Len(chunks) > 3
    /\ Len(chunks) \in Running

\* C10 (as claimed): for chunk size S > 0 the splitting loop leaves
\* ceil(N/S) chunks with indices 0, 1, .. in read order, all of length S
\* but the last, of length N mod S (S when that is 0), whose payloads
\* concatenated are the file.
C10_SplitExact ==
    (pc = "upload" /\ chunk_size > 0) =>
        LET N == Len(file)
            S == chunk_size
            k == (N + S - 1) \div S
        IN  /\ Len(chunks) = k
            /\ \A j \in 1..Len(chunks) :
                  /\ chunks[j].idx = j - 1
                  /\ Len(chunks[j].data) =
                        IF j < k \/ N % S = 0 THEN S ELSE N % S
            /\ Concat(chunks) = file

(***************************************************************************)
(* C11..C20                                                                *)
(***************************************************************************)

\* export_file returned Ok(()) and every GET it sent was answered with the
\* stored payload
ExportedFaithfully ==
    /\ ex.pc = "done"
    /\ ex.ret = "ok"
    /\ \A j \in 1..Len(ex.gets) : ex.gets[j].end = "ok"

\* C11 (as claimed): when ingest_file returned a file id and export_file of
\* that id ended with every GET answered by the stored payload, the sink
\* holds exactly the bytes of the source file.
C11_RoundTrip ==
    (ExportedFaithfully /\ ret = Ok(ex.id)) =>
        /\ sink.created
        /\ sink.bytes = file

\* the file_chunks rows of file fid
RowsOf(fid) == {file_chunks[j] : j \in {k \in 1..Len(file_chunks) : file_chunks[k].file_id = fid}}

\* the bytes of the response bodies of the requests gs, in the order sent
RECURSIVE Bodies(_)
Bodies(gs) == IF gs = <<>> THEN <<>> ELSE Head(gs).body \o Bodies(Tail(gs))

\* C12: while and after export_file of a catalogued file runs, its j-th GET
\* went to proxy_base + "/?" + url of the chunk row with the j-th smallest
\* idx, the sink holds the response bodies received so far in that order and
\* nothing else, and when export_file returns Ok(()) it has sent exactly one
\* GET per catalogued chunk.
C12_ExportFetchesInOrder ==
    (ex.pc \in {"fetch", "done"} /\ ex.ret # "notfound") =>
        /\ Len(ex.gets) <= Cardinality(RowsOf(ex.id))
        /\ \A j \in 1..Len(ex.gets) :
              \E r \in RowsOf(ex.id) :
                  /\ ex.gets[j].url = <<ProxyBase, "/?", r.url>>
                  /\ Cardinality({q \in RowsOf(ex.id) : q.idx < r.idx}) = j - 1
        /\ sink.created
        /\ sink.bytes = Bodies(ex.gets)
        /\ ex.ret = "ok" => Len(ex.gets) = Cardinality(RowsOf(ex.id))

\* export_file returned Ok(()) after at least two GETs for chunks that had
\* been uploaded in another order than their idx
C12_Witness ==
    /\ ex.pc = "done"
    /\ ex.ret = "ok"
    /\ Len(ex.gets) >= 2
    /\ ex.gets[1].url = <<ProxyBase, "/?", Url(2)>>
    /\ sink.bytes = Bodies(ex.gets)

\* C13: export_file called with a file id that no files row has ends with
\* the not-found error of the filename query, has sent no GET, and has
\* neither created nor written the sink.
C13_UnknownIdNotFound ==
    (ex.pc # "idle" /\ \A j \in 1..Len(files) : files[j].id # ex.id) =>
        /\ ex.pc = "done"
        /\ ex.ret = "notfound"
        /\ ex.gets = <<>>
        /\ ~sink.created
        /\ sink.bytes = <<>>

\* export_file failed with not-found on a catalog that holds a file with
\* chunks
C13_Witness ==
    /\ ex.pc = "done"
    /\ ex.ret = "notfound"
    /\ ex.id = Len(files) + 1
    /\ file_chunks # <<>>
    /\ ~sink.created

\* C14 (as claimed): once the i-th GET of export_file has failed (no
\* response, a response with an error status, or a body that breaks off),
\* export_file has ended with the network error, the failed GET is the last
\* one it sent, and the sink holds exactly the bodies of the GETs before it.
C14_FetchFailureStops ==
    \A i \in 1..Len(ex.gets) :
        ex.gets[i].end # "ok" =>
            /\ ex.pc = "done"
            /\ ex.ret = "network"
            /\ Len(ex.gets) = i
            /\ sink.bytes = Bodies(SubSeq(ex.gets, 1, i - 1))

\* C15 (as claimed): when verify_file has ended, it has hashed the
\* catalogued chunks of the file in ascending idx, every one of them, has
\* printed a mismatch only for chunks it hashed, and has printed the
\* aggregate pass message exactly when it printed no mismatch.
C15_VerifyScansAll ==
    verified.ret # "none" =>
        /\ Len(verified.scanned) = Len(QueryChunks(verified.id))
        /\ \A j \in 1..Len(verified.scanned) :
              verified.scanned[j] = QueryChunks(verified.id)[j][1]
        /\ verified.mismatch \subseteq {verified.scanned[j] : j \in 1..Len(verified.scanned)}
        /\ verified.pass <=> verified.mismatch = {}

\* the rows rs are in strictly ascending id and row j carries the file size
\* and the chunk size of the j-th call of ingest_file
RecordsOfCalls(rs) ==
    /\ \A j, k \in 1..Len(rs) : j < k => rs[j].id < rs[k].id
    /\ \A j \in 1..Len(rs) :
          /\ rs[j].filesize = Len(calls[j].file)
          /\ rs[j].chunk_size = calls[j].chunk_size

C17_ZeroChunkSizeRejected ==
    chunk_size = 0 =>
        /\ chunks = <<>>
        /\ remote = <<>>
        /\ ret # Ok(file_id)
        /\ pc = "done" => ret = Err

\* C18: a closure whose upload ended in success or in a returned error has
\* started exactly one sleep of 2..6 whole seconds, right at that outcome
\* and in the same closure; a closure without such an outcome has started
\* none; and the group of a closure is complete (the next group is being
\* uploaded, or the rows are being inserted) only when the closure has
\* finished that sleep.
C18_ThrottleAfterEveryOutcome ==
    /\ \A i \in 1..Len(workers) :
          /\ workers[i].outcome \in {"ok", "transport", "json"} =>
                /\ workers[i].throttles = 1
                /\ workers[i].st \in {"throttle", "finished"}
          /\ workers[i].outcome \notin {"ok", "transport", "json"} =>
                workers[i].throttles = 0
          /\ (GroupOf(i) < group \/ pc \in {"insert", "done"}) =>
                /\ workers[i].st = "finished"
                /\ workers[i].throttles = 1
    /\ sleep_call.kind = "throttle" =>
          /\ sleep_call.secs \in 2..6
          /\ sleep_call.worker \in 1..Len(workers)
          /\ workers[sleep_call.worker].st = "throttle"
          /\ workers[sleep_call.worker].outcome \in {"ok", "transport", "json"}

\* a closure whose upload failed for good has finished its sleep while a
\* closure of the same group whose upload succeeded starts its sleep of 6
\* seconds
C18_Witness ==
    \E i, j \in 1..Len(workers) :
        /\ GroupOf(i) = GroupOf(j)
        /\ workers[i].outcome = "json"
        /\ workers[i].st = "finished"
        /\ workers[i].throttles = 1
        /\ workers[j].outcome = "ok"
        /\ workers[j].st = "throttle"
        /\ sleep_call = SleepCall(j, "throttle", 6)

\* C19: at every moment the accumulator holds exactly one entry per chunk
\* whose upload has succeeded and no other entry, so also once all groups
\* are complete; a file_chunks row exists only when no closure is running
\* or still to run; and the rows are inserted in strictly ascending idx.
C19_AccumulatorAndInsertOrder ==
    /\ Len(results) = Cardinality({i \in 1..Len(workers) : workers[i].outcome = "ok"})
    /\ \A i \in 1..Len(workers) :
          workers[i].outcome = "ok" =>
              Cardinality({j \in 1..Len(results) :
                              results[j] = <<chunks[i].idx, workers[i].response>>}) = 1
    /\ file_chunks # <<>> =>
          /\ pc \in {"insert", "done"}
          /\ \A i \in 1..Len(workers) : workers[i].st = "finished"
    /\ \A j, k \in 1..Len(file_chunks) :
          j < k => file_chunks[j].idx < file_chunks[k].idx

\* ingest_file returned after uploads that succeeded in another order than
\* their idx, and inserted at least two rows
C19_Witness ==
    /\ Returned
    /\ Len(results) >= 2
    /\ results[1][1] > results[2][1]
    /\ Len(file_chunks) = Len(results)

\* C20 (as claimed): when the endpoint answers 429 only finitely often,
\* every chunk eventually has its final outcome, success or returned error,
\* and ingest_file eventually returns.
C20_EventuallyReturns ==
    <>(/\ pc = "done"
       /\ \A i \in 1..Len(workers) : workers[i].outcome \in {"ok", "transport", "json"})

====
